---- MODULE Spec2Model ----
(***************************************************************************)
(* Model of the CSV loader and the page script of the data chatbot.        *)
(*   src/streamlit_app.py : load_file, load_data (cached), the page script *)
(*   src/data.py          : load_file, load_data (cached), no handlers     *)
(* The filesystem is the environment: one data folder, whose existence     *)
(* and entries are chosen freely in Init, and one path that is never a     *)
(* directory.                                                              *)
(***************************************************************************)
EXTENDS Integers, Sequences, FiniteSets, TLC

\* ---------------------------------------------------------------- bounds
MaxFiles == 2
MaxRows == 2
MaxRuns == 2
MaxFsChanges == 1

\* ------------------------------------------------------------- constants
DATA_FOLDER == "./data"
OTHER_FOLDER == "./missing"
Folders == {DATA_FOLDER, OTHER_FOLDER}

Headers == {"A", "B"}
LineKinds == {"row", "bad"}

\* ------------------------------------------------------------ filesystem
\* A file body: the lines after the header line. "row" is a line with as
\* many fields as the header, "bad" a structurally malformed line.
RECURSIVE SeqsUpTo(_, _)
SeqsUpTo(S, n) ==
  IF n = 0 THEN {<<>>}
  ELSE LET shorter == SeqsUpTo(S, n - 1)
       IN  shorter \cup {Append(s, x) : s \in {t \in shorter : Len(t) = n - 1}, x \in S}

Bodies == SeqsUpTo(LineKinds, MaxRows)

\* The kinds of directory entry the loaders can meet:
\*   a child without the .csv suffix,
\*   a .csv name whose target is gone (dangling link, removed after listing),
\*   a .csv file that cannot be decoded/parsed at all,
\*   a zero-byte .csv file (header "none"),
\*   a .csv file with a header line and a body.
EntryShapes ==
  {[suffix |-> "txt", kind |-> "text", header |-> "A", body |-> <<"row">>]}
  \cup {[suffix |-> "csv", kind |-> k, header |-> "none", body |-> <<>>] :
          k \in {"missing", "undecodable", "text"}}
  \cup {[suffix |-> "csv", kind |-> "text", header |-> h, body |-> b] :
          h \in Headers, b \in Bodies}

\* A directory listing: entry i is named i.
Listing(sh) ==
  [i \in DOMAIN sh |-> [name |-> i, suffix |-> sh[i].suffix, kind |-> sh[i].kind,
                        header |-> sh[i].header, body |-> sh[i].body]]

NoDirectory == [dirExists |-> FALSE, entries |-> <<>>]
Directory(es) == [dirExists |-> TRUE, entries |-> es]

IsDir(fsys, folder) == folder = DATA_FOLDER /\ fsys.dirExists

\* ------------------------------------------------------------ data frames
EmptyFrame == [cols |-> {}, index |-> <<>>, rows |-> <<>>]

\* DataFrame.empty: any axis of length 0.
IsEmpty(d) == d.cols = {} \/ Len(d.rows) = 0

RangeIndex(n) == [i \in 1..n |-> i - 1]

RECURSIVE Flatten(_)
Flatten(ss) == IF ss = <<>> THEN <<>> ELSE Head(ss) \o Flatten(Tail(ss))

\* The cells of line j of file e: identified by the file and the line.
RowOf(e, j) == [file |-> e.name, line |-> j, h |-> e.header]

RECURSIVE GoodRows(_, _)
GoodRows(e, j) ==
  IF j > Len(e.body) THEN <<>>
  ELSE (IF e.body[j] = "row" THEN <<RowOf(e, j)>> ELSE <<>>) \o GoodRows(e, j + 1)

HasBadLine(e) == \E j \in 1..Len(e.body) : e.body[j] = "bad"

\* pd.read_csv(path, on_bad_lines=policy): the frame, or the exception raised.
ReadCsv(e, policy) ==
  IF e.kind = "missing" THEN [exc |-> "FileNotFoundError", df |-> EmptyFrame]
  ELSE IF e.kind = "undecodable" THEN [exc |-> "Exception", df |-> EmptyFrame]
  ELSE IF e.header = "none" THEN [exc |-> "EmptyDataError", df |-> EmptyFrame]
  ELSE IF policy = "error" /\ HasBadLine(e) THEN [exc |-> "Exception", df |-> EmptyFrame]
  ELSE LET rs == GoodRows(e, 1)
       IN  [exc |-> "none",
            df |-> [cols |-> {e.header}, index |-> RangeIndex(Len(rs)), rows |-> rs]]

SameColumns(frames) ==
  \A i, j \in 1..Len(frames) : frames[i].cols = frames[j].cols

\* pd.concat(frames, ignore_index=ignore). It raises on an empty list.
\* Frames with equal columns are stacked as they are. Frames with different
\* columns are aligned on the union of their columns first (missing cells
\* stay empty); that step is where pandas can reject frames that read_csv
\* produced, and whether it does is the environment's choice alignFails.
\* Exhaustion of memory is not modelled, here or in read_csv.
Concat(frames, ignore, alignFails) ==
  IF frames = <<>> THEN [exc |-> "ValueError", df |-> EmptyFrame]
  ELSE IF alignFails /\ ~SameColumns(frames) THEN [exc |-> "Exception", df |-> EmptyFrame]
  ELSE LET rs == Flatten([i \in 1..Len(frames) |-> frames[i].rows])
       IN  [exc |-> "none",
            df |-> [cols |-> UNION {frames[i].cols : i \in 1..Len(frames)},
                    index |-> IF ignore THEN RangeIndex(Len(rs))
                              ELSE Flatten([i \in 1..Len(frames) |-> frames[i].index]),
                    rows |-> rs]]

\* ------------------------------------------------------------ diagnostics
\* A message: its kind (one per message text of the source) and what the
\* text names: a folder ("-" for none) and a file (0 for none).
Msg(kind, folder, file) == [kind |-> kind, folder |-> folder, file |-> file]


\* ------------------------------------------- streamlit_app.py: the loader
\* load_file(path): the frame returned and the messages shown.
load_file(folder, e) ==
  LET r == ReadCsv(e, "warn")
  IN  IF r.exc = "none" THEN [df |-> r.df, msgs |-> <<>>]
      ELSE IF r.exc = "FileNotFoundError"
        THEN [df |-> EmptyFrame, msgs |-> <<Msg("file_not_found", folder, e.name)>>]
      ELSE IF r.exc = "EmptyDataError"
        THEN [df |-> EmptyFrame, msgs |-> <<Msg("empty_file", "-", e.name)>>]
      ELSE [df |-> EmptyFrame, msgs |-> <<Msg("load_error", "-", e.name)>>]

\* folder_path.glob("*.csv")
GlobAll(fsys, folder) == IF IsDir(fsys, folder) THEN fsys.entries ELSE <<>>

Glob(fsys, folder) ==
  IF IsDir(fsys, folder)
  THEN SelectSeq(fsys.entries, LAMBDA e : e.suffix = "csv")
  ELSE <<>>

\* The loop of load_data over csv_files: the frames kept, the messages of
\* load_file and the files load_file was called on, in order.
RECURSIVE LoadFilesAbort(_, _)
LoadFilesAbort(folder, files) ==
  IF files = <<>> THEN [frames |-> <<>>, msgs |-> <<>>, parsed |-> <<>>]
  ELSE LET one == load_file(folder, Head(files))
       IN  IF one.msgs # <<>>
           THEN [frames |-> <<>>, msgs |-> one.msgs, parsed |-> <<Head(files).name>>]
           ELSE LET rest == LoadFilesAbort(folder, Tail(files))
                IN  [frames |-> (IF IsEmpty(one.df) THEN <<>> ELSE <<one.df>>) \o rest.frames,
                     msgs   |-> one.msgs \o rest.msgs,
                     parsed |-> <<Head(files).name>> \o rest.parsed]

RECURSIVE LoadFiles(_, _)
LoadFiles(folder, files) ==
  IF files = <<>> THEN [frames |-> <<>>, msgs |-> <<>>, parsed |-> <<>>]
  ELSE LET one  == load_file(folder, Head(files))
           rest == LoadFiles(folder, Tail(files))
       IN  [frames |-> (IF IsEmpty(one.df) THEN <<>> ELSE <<one.df>>) \o rest.frames,
            msgs   |-> one.msgs \o rest.msgs,
            parsed |-> <<Head(files).name>> \o rest.parsed]

\* if not folder_path.is_dir()
NeverMissing(fsys, folder) == FALSE

DirMissing(fsys, folder) == ~IsDir(fsys, folder)

\* if not all_datasets
NeverNothingLoaded(frames) == FALSE

NothingLoaded(frames) == frames = <<>>

\* pd.concat(all_datasets, ignore_index=True)
AppConcatKeepIndex(frames, alignFails) == Concat(frames, FALSE, alignFails)

AppConcat(frames, alignFails) == Concat(frames, TRUE, alignFails)

\* The result of a load: the Dataset, the messages, whether the directory
\* was listed and the files load_file was called on.
Outcome(d, m, g, p) == [df |-> d, msgs |-> m, globbed |-> g, parsed |-> p]

\* The body of load_data(folder).
AppLoadData(fsys, folder, alignFails) ==
  IF DirMissing(fsys, folder)
  THEN Outcome(EmptyFrame, <<Msg("folder_not_found", folder, 0)>>, FALSE, <<>>)
  ELSE LET csv_files == Glob(fsys, folder)
       IN  IF csv_files = <<>>
           THEN Outcome(EmptyFrame, <<Msg("no_csv_files", folder, 0)>>, TRUE, <<>>)
           ELSE LET l == LoadFiles(folder, csv_files)
                IN  IF NothingLoaded(l.frames)
                    THEN Outcome(EmptyFrame, l.msgs \o <<Msg("no_data", "-", 0)>>,
                                 TRUE, l.parsed)
                    ELSE LET c == AppConcat(l.frames, alignFails)
                         IN  IF c.exc = "none"
                             THEN Outcome(c.df, l.msgs \o <<Msg("success", "-", 0)>>,
                                          TRUE, l.parsed)
                             ELSE Outcome(EmptyFrame,
                                          l.msgs \o <<Msg("concat_error", "-", 0)>>,
                                          TRUE, l.parsed)

\* ------------------------------------------------------- st.cache_data
NoEntry == [hit |-> FALSE, df |-> EmptyFrame, msgs |-> <<>>]
EmptyCache == [f \in Folders |-> NoEntry]

\* The entry stored for the argument, or NoEntry.
CacheLookupNever(c, folder) == NoEntry

CacheLookup(c, folder) == c[folder]

CacheStore(c, folder, d, m) ==
  [c EXCEPT ![folder] = [hit |-> TRUE, df |-> d, msgs |-> m]]


\* ------------------------------------------------- data.py: the loader
\* load_file(path) of data.py: pd.read_csv(path), nothing caught.
data_load_file(e) == ReadCsv(e, "error")

\* The list comprehension of load_data: the frames, or the first exception.
RECURSIVE DataLoadFiles(_)
DataLoadFiles(files) ==
  IF files = <<>> THEN [exc |-> "none", frames |-> <<>>]
  ELSE LET one == data_load_file(Head(files))
       IN  IF one.exc # "none" THEN [exc |-> one.exc, frames |-> <<>>]
           ELSE LET rest == DataLoadFiles(Tail(files))
                IN  IF rest.exc # "none" THEN rest
                    ELSE [exc |-> "none", frames |-> <<one.df>> \o rest.frames]

\* The body of data.load_data(folder): the Dataset returned, or the
\* exception that leaves the function.
DataLoadData(fsys, folder, alignFails) ==
  IF ~IsDir(fsys, folder) THEN [exc |-> "FileNotFoundError", df |-> EmptyFrame]
  ELSE LET l == DataLoadFiles(SelectSeq(fsys.entries, LAMBDA e : e.suffix = "csv"))
       IN  IF l.exc # "none" THEN [exc |-> l.exc, df |-> EmptyFrame]
           ELSE Concat(l.frames, TRUE, alignFails)

\* ------------------------------------------------------------------ state
VARIABLES
  fs,          \* the filesystem (environment)
  fsChanges,   \* changes of the filesystem so far
  cache,       \* st.cache_data of streamlit_app.load_data
  run,         \* number of the current script run of the session
  scans,       \* executions of the body of streamlit_app.load_data
  returned,    \* the Datasets load_data returned to the script, per run
  pc,          \* position of the script in its run
  df,          \* the script's df
  msgs,        \* messages shown in this run
  executed,    \* this run's load_data call executed the body
  globbed,     \* ... and it listed the directory
  parsed,      \* ... and called load_file on these files, in order
  previewed,   \* the data preview was rendered in this run
  query,       \* text of the text area
  chatCalled,  \* SmartDataframe.chat was invoked in this run
  dcache,      \* st.cache_data of data.load_data
  dout         \* outcome of the last call of data.load_data

appVars  == <<cache, run, scans, returned, pc, df, msgs, executed, globbed,
              parsed, previewed, query, chatCalled>>
dataVars == <<dcache, dout>>
vars     == <<fs, fsChanges, appVars, dataVars>>

Queries == {"", "question"}
Answers == {"text", "none", "rendered", "raises"}

NoCall == [status |-> "none", folder |-> "-", exc |-> "none", df |-> EmptyFrame]

Init ==
  /\ \E n \in 0..MaxFiles : \E sh \in [1..n -> EntryShapes] :
       fs \in {NoDirectory, Directory(Listing(sh))}
  /\ fsChanges = 0
  /\ cache = EmptyCache
  /\ run = 1
  /\ scans = 0
  /\ returned = <<>>
  /\ pc = "load"
  /\ df = EmptyFrame
  /\ msgs = <<>>
  /\ executed = FALSE
  /\ globbed = FALSE
  /\ parsed = <<>>
  /\ previewed = FALSE
  /\ query = ""
  /\ chatCalled = FALSE
  /\ dcache = EmptyCache
  /\ dout = NoCall

\* ------------------------------------------- streamlit_app.py: the script
\* if df.empty: st.error(...); st.stop()
NeverStops(d) == FALSE

StopOnEmpty(d) == IsEmpty(d)

\* df = load_data(DATA_FOLDER), through st.cache_data: a stored entry is
\* returned with its messages replayed, otherwise the body runs and its
\* result is stored.
LoadStep ==
  /\ pc = "load"
  /\ LET entry == CacheLookup(cache, DATA_FOLDER)
     IN  IF entry.hit
         THEN /\ df' = entry.df
              /\ msgs' = entry.msgs
              /\ executed' = FALSE
              /\ globbed' = FALSE
              /\ parsed' = <<>>
              /\ returned' = Append(returned, entry.df)
              /\ UNCHANGED <<cache, scans>>
         ELSE \E alignFails \in BOOLEAN :
                LET o == AppLoadData(fs, DATA_FOLDER, alignFails)
                IN  /\ df' = o.df
                    /\ msgs' = o.msgs
                    /\ executed' = TRUE
                    /\ globbed' = o.globbed
                    /\ parsed' = o.parsed
                    /\ returned' = Append(returned, o.df)
                    /\ cache' = CacheStore(cache, DATA_FOLDER, o.df, o.msgs)
                    /\ scans' = scans + 1
  /\ pc' = "check"
  /\ UNCHANGED <<fs, fsChanges, run, previewed, query, chatCalled, dataVars>>

CheckEmpty ==
  /\ pc = "check"
  /\ IF StopOnEmpty(df)
     THEN /\ msgs' = Append(msgs, Msg("no_data_loaded", DATA_FOLDER, 0))
          /\ pc' = "stopped"
     ELSE /\ msgs' = msgs
          /\ pc' = "preview"
  /\ UNCHANGED <<fs, fsChanges, cache, run, scans, returned, df, executed, globbed,
                 parsed, previewed, query, chatCalled, dataVars>>

DataPreview ==
  /\ pc = "preview"
  /\ previewed' = TRUE
  /\ pc' = "input"
  /\ UNCHANGED <<fs, fsChanges, cache, run, scans, returned, df, msgs, executed,
                 globbed, parsed, query, chatCalled, dataVars>>

ChatInput ==
  /\ pc = "input"
  /\ \E q \in Queries : query' = q
  /\ pc' = "process"
  /\ UNCHANGED <<fs, fsChanges, cache, run, scans, returned, df, msgs, executed,
                 globbed, parsed, previewed, chatCalled, dataVars>>

\* if query: ... query_engine.chat(query) ... else: st.info(...)
QueryProcessing ==
  /\ pc = "process"
  /\ IF query = ""
     THEN /\ msgs' = Append(msgs, Msg("type_question", "-", 0))
          /\ chatCalled' = chatCalled
     ELSE \E openai_api_key \in BOOLEAN :
            IF ~openai_api_key
            THEN /\ msgs' = Append(msgs, Msg("no_api_key", "-", 0))
                 /\ chatCalled' = chatCalled
            ELSE /\ chatCalled' = TRUE
                 /\ \E answer \in Answers :
                      msgs' = IF answer = "text" THEN Append(msgs, Msg("answer", "-", 0))
                              ELSE IF answer = "none" THEN Append(msgs, Msg("no_output", "-", 0))
                              ELSE IF answer = "raises" THEN Append(msgs, Msg("query_error", "-", 0))
                              ELSE msgs
  /\ pc' = "done"
  /\ UNCHANGED <<fs, fsChanges, cache, run, scans, returned, df, executed, globbed,
                 parsed, previewed, query, dataVars>>

\* A widget interaction or reload starts the script again in the same
\* session: the cache is kept, everything else starts over.
Rerun ==
  /\ pc \in {"stopped", "done"}
  /\ run < MaxRuns
  /\ run' = run + 1
  /\ pc' = "load"
  /\ df' = EmptyFrame
  /\ msgs' = <<>>
  /\ executed' = FALSE
  /\ globbed' = FALSE
  /\ parsed' = <<>>
  /\ previewed' = FALSE
  /\ query' = ""
  /\ chatCalled' = FALSE
  /\ UNCHANGED <<fs, fsChanges, cache, scans, returned, dataVars>>

\* ------------------------------------------------------------ environment
\* The filesystem changes between two runs of the script (what it is before
\* the first run is Init's choice).
BetweenRuns == pc = "load" /\ run > 1 /\ fsChanges < MaxFsChanges

RemoveDir ==
  /\ BetweenRuns
  /\ fs.dirExists
  /\ fs' = NoDirectory
  /\ fsChanges' = fsChanges + 1
  /\ UNCHANGED <<appVars, dataVars>>

CreateDir ==
  /\ BetweenRuns
  /\ ~fs.dirExists
  /\ fs' = Directory(<<>>)
  /\ fsChanges' = fsChanges + 1
  /\ UNCHANGED <<appVars, dataVars>>

DeleteFile ==
  /\ BetweenRuns
  /\ \E i \in 1..Len(fs.entries) :
       fs' = [fs EXCEPT !.entries =
                SubSeq(fs.entries, 1, i - 1) \o SubSeq(fs.entries, i + 1, Len(fs.entries))]
  /\ fsChanges' = fsChanges + 1
  /\ UNCHANGED <<appVars, dataVars>>

Next ==
  \/ LoadStep
  \/ CheckEmpty
  \/ DataPreview
  \/ ChatInput
  \/ QueryProcessing
  \/ Rerun
  \/ RemoveDir
  \/ CreateDir
  \/ DeleteFile

Spec == Init /\ [][Next]_vars

\* ------------------------------------------ a client of data.load_data
\* data.load_data(folder), through st.cache_data: an exception leaves the
\* call and stores nothing.
DataLoadStep ==
  /\ \E folder \in Folders :
       LET entry == CacheLookup(dcache, folder)
       IN  IF entry.hit
           THEN /\ dout' = [status |-> "returned", folder |-> folder, exc |-> "none",
                            df |-> entry.df]
                /\ dcache' = dcache
           ELSE \E alignFails \in BOOLEAN :
                  LET o == DataLoadData(fs, folder, alignFails)
                  IN  IF o.exc = "none"
                      THEN /\ dout' = [status |-> "returned", folder |-> folder,
                                       exc |-> "none", df |-> o.df]
                           /\ dcache' = CacheStore(dcache, folder, o.df, <<>>)
                      ELSE /\ dout' = [status |-> "raised", folder |-> folder,
                                       exc |-> o.exc, df |-> EmptyFrame]
                           /\ dcache' = dcache
  /\ UNCHANGED <<fs, fsChanges, appVars>>

NextData == DataLoadStep

SpecData == Init /\ [][NextData]_vars


\* ================================================================ claims
\* What the formulas read off the filesystem, independently of the loader.
CsvEntries == SelectSeq(fs.entries, LAMBDA e : e.suffix = "csv")
CsvNames == [i \in 1..Len(CsvEntries) |-> CsvEntries[i].name]

RowLines(e) == {j \in 1..Len(e.body) : e.body[j] = "row"}

\* A file with a header line and at least one data row that parses.
ContributesRows(e) == e.kind = "text" /\ e.header # "none" /\ RowLines(e) # {}

\* A file that parses, to zero data rows: zero bytes, a header only, or a
\* header followed by malformed lines only.
ZeroRowFile(e) == e.kind = "text" /\ RowLines(e) = {}

\* Well-formed and non-empty: a header, at least one line, no malformed line.
WellFormedFile(e) ==
  e.kind = "text" /\ e.header # "none" /\ Len(e.body) > 0 /\ RowLines(e) = 1..Len(e.body)

WellFormedDir ==
  /\ fs.dirExists
  /\ \A i \in 1..Len(CsvEntries) : WellFormedFile(CsvEntries[i])
  /\ \A i, j \in 1..Len(CsvEntries) : CsvEntries[i].header = CsvEntries[j].header

\* The lines of the files, file by file in listing order, line by line.
LinesInOrder ==
  Flatten([i \in 1..Len(CsvEntries) |->
             [j \in 1..Len(CsvEntries[i].body) |->
                [file |-> CsvEntries[i].name, line |-> j, h |-> CsvEntries[i].header]]])

RECURSIVE SumLen(_)
SumLen(files) == IF files = <<>> THEN 0 ELSE Len(Head(files).body) + SumLen(Tail(files))

\* This run's load_data call executed the body, on the filesystem as it is.
Loaded == pc # "load" /\ executed

Shown(kind) == \E k \in 1..Len(msgs) : msgs[k].kind = kind
ShownFor(kind, name) == \E k \in 1..Len(msgs) : msgs[k].kind = kind /\ msgs[k].file = name

\* The loader's messages are followed by at most the script's own message.
OnlyLoaderMsg(m) ==
  /\ Len(msgs) >= 1
  /\ msgs[1] = m
  /\ \A k \in 2..Len(msgs) : msgs[k].kind = "no_data_loaded"

\* C1: for a directory whose CSV files are all well-formed, non-empty and of
\* identical columns, load_data returns as many rows as the files have data
\* rows, file by file in discovery order and in each file's row order, with
\* the row index 0..n-1.
C1_RowsInOrder ==
  (Loaded /\ WellFormedDir) =>
     /\ Len(df.rows) = SumLen(CsvEntries)
     /\ df.rows = LinesInOrder
     /\ df.index = [k \in 1..Len(df.rows) |-> k - 1]

C1_Witness ==
  /\ Loaded /\ WellFormedDir
  /\ Len(CsvEntries) = 2
  /\ \A i \in 1..2 : Len(CsvEntries[i].body) = 2
  /\ Len(df.rows) = 4

\* C2: in a run in which load_data returned an empty Dataset the script
\* stops at the check: the preview is not rendered and SmartDataframe.chat
\* is not invoked, whatever the question and the credential.
C2_EmptyHalts ==
  (Len(returned) = run /\ IsEmpty(returned[run])) =>
     /\ ~chatCalled
     /\ ~previewed
     /\ pc \in {"check", "stopped"}

C2_Witness == pc = "stopped" /\ IsEmpty(df) /\ Len(returned) = run /\ ~chatCalled

\* C3: every discovered file that parses to zero data rows, header-only or
\* truly empty, gets an "empty file" message and contributes no rows.
C3_EmptyFileReported ==
  Loaded =>
    \A i \in 1..Len(CsvEntries) :
      ZeroRowFile(CsvEntries[i]) =>
        /\ ShownFor("empty_file", CsvEntries[i].name)
        /\ \A k \in 1..Len(df.rows) : df.rows[k].file # CsvEntries[i].name

FailureKinds ==
  {"folder_not_found", "no_csv_files", "file_not_found", "empty_file", "load_error",
   "concat_error", "no_data"}

\* C4: every failure message of a load names the offending file or folder,
\* and no discovered file is skipped without a message naming it.
C4_NoSilentFailure ==
  Loaded =>
    /\ \A k \in 1..Len(msgs) :
         msgs[k].kind \in FailureKinds => (msgs[k].folder # "-" \/ msgs[k].file # 0)
    /\ \A i \in 1..Len(CsvEntries) :
         ~ContributesRows(CsvEntries[i]) =>
            \E k \in 1..Len(msgs) :
              msgs[k].kind \in FailureKinds /\ msgs[k].file = CsvEntries[i].name

OnlyLoadedFiles ==
  [fs EXCEPT !.entries = SelectSeq(fs.entries,
                                   LAMBDA e : e.suffix = "csv" /\ ContributesRows(e))]

\* C5: a per-file failure never aborts the load: load_file is called on
\* every discovered file, in order, and the Dataset returned is the one
\* returned for the directory reduced to the files that load.
C5_FailuresTolerated ==
  (Loaded /\ fs.dirExists) =>
     /\ parsed = CsvNames
     /\ df = AppLoadData(OnlyLoadedFiles, DATA_FOLDER, Shown("concat_error")).df

C5_Witness ==
  /\ Loaded
  /\ Len(CsvEntries) = 2
  /\ ZeroRowFile(CsvEntries[1])
  /\ ContributesRows(CsvEntries[2])
  /\ Len(df.rows) > 0
  /\ Len(parsed) = 2

\* C6: a call of load_data returns a Dataset to its caller and raises
\* nothing, whatever the state of the filesystem.
C6_NothingRaised == dout.status # "raised"

\* C7: within a session every call of load_data after the first returns the
\* Dataset of the first call, and the body (directory scan, file parses) is
\* not executed again.
C7_CachedAsIs ==
  /\ scans <= 1
  /\ \A i, j \in 1..Len(returned) : returned[i] = returned[j]
  /\ (run > 1 /\ pc # "load") => (~executed /\ ~globbed /\ parsed = <<>> /\ df = returned[1])

C7_Witness ==
  /\ run = 2 /\ pc = "check"
  /\ fsChanges = 1 /\ ~fs.dirExists
  /\ ~IsEmpty(df)

SomeFileContributes == \E i \in 1..Len(CsvEntries) : ContributesRows(CsvEntries[i])

\* C8 (as stated): load_data returns an empty Dataset exactly when the
\* directory does not exist, it has no CSV files, or no discovered file
\* contributed rows (reported as "no usable data"); whenever a file
\* contributes rows the Dataset is non-empty.
C8_OnlyThreeEmpty ==
  Loaded =>
    /\ IsEmpty(df) <=> (~fs.dirExists \/ CsvEntries = <<>> \/ ~SomeFileContributes)
    /\ (fs.dirExists /\ CsvEntries # <<>> /\ ~SomeFileContributes) => Shown("no_data")

\* C8 (amended): load_data returns an empty Dataset exactly when the
\* directory does not exist, it has no CSV files, no discovered file
\* contributed rows (reported as "no usable data"), or pd.concat raised
\* (reported as a concatenation error); whenever a file contributes rows and
\* the concatenation succeeds the Dataset is non-empty.
C8_FourEmpty ==
  Loaded =>
    /\ IsEmpty(df) <=> \/ ~fs.dirExists
                       \/ CsvEntries = <<>>
                       \/ ~SomeFileContributes
                       \/ Shown("concat_error")
    /\ (fs.dirExists /\ CsvEntries # <<>> /\ ~SomeFileContributes) =>
          (Shown("no_data") /\ ~Shown("concat_error"))
    /\ Shown("concat_error") => SomeFileContributes
    /\ ~IsEmpty(df) <=> Shown("success")

C8_Witness ==
  /\ Loaded
  /\ SomeFileContributes
  /\ Shown("concat_error")
  /\ IsEmpty(df)
  /\ Len(parsed) = 2

\* C9: for a folder that is not an existing directory load_data shows the
\* "folder not found" message naming the folder and returns an empty
\* Dataset without listing the directory or parsing a file, and the run
\* goes no further: no preview, no query.
C9_DirectoryNotFound ==
  (Loaded /\ ~IsDir(fs, DATA_FOLDER)) =>
     /\ OnlyLoaderMsg(Msg("folder_not_found", DATA_FOLDER, 0))
     /\ IsEmpty(df)
     /\ ~globbed
     /\ parsed = <<>>
     /\ ~previewed
     /\ ~chatCalled
     /\ pc \in {"check", "stopped"}

C9_Witness == Loaded /\ ~fs.dirExists /\ pc = "stopped" /\ Shown("folder_not_found")

\* C10: for an existing directory without a child named *.csv load_data
\* shows the "no CSV files" message and returns an empty Dataset without
\* calling load_file.
C10_NoInputFiles ==
  (Loaded /\ fs.dirExists /\ CsvEntries = <<>>) =>
     /\ OnlyLoaderMsg(Msg("no_csv_files", DATA_FOLDER, 0))
     /\ IsEmpty(df)
     /\ globbed
     /\ parsed = <<>>

C10_Witness ==
  /\ Loaded /\ fs.dirExists
  /\ Len(fs.entries) > 0 /\ CsvEntries = <<>>
  /\ Shown("no_csv_files")

====
